---------------------------- MODULE Spec2Model ----------------------------
(***************************************************************************)
(* QtRequestClient: the request lifecycle of QtHttpClient (client.py) and  *)
(* the response decoding of Handlers/Utilities (handlers.py).              *)
(*                                                                         *)
(* A QtHttpClient object keeps ONE set of per-request fields (_url,        *)
(* _initial_retries, _remaining_retries, _history, ...) and ONE            *)
(* current_reply / request_timeout_timer.  The transport (Qt's             *)
(* QNetworkAccessManager and its QNetworkReply objects) is the             *)
(* environment: it delivers a reply's error signal, then its finished      *)
(* signal, to the slots connected in _make_request.  A handler runs to     *)
(* completion, together with every signal that its own calls emit          *)
(* synchronously (reply.abort()), so each event is one action.             *)
(*                                                                         *)
(* client.py line 227-229 is indented inconsistently in the source; the    *)
(* model reads these three lines as the end of the except block (finalize, *)
(* deleteLater, return), which is the only reading under which `result`    *)
(* and the following `return` make sense.                                  *)
(***************************************************************************)
EXTENDS Integers, Sequences, FiniteSets, TLC

\* ------------------------------------------------------------- bounds
MaxRequests == 2      \* logical requests the caller dispatches (get/post/...)
MaxRetries  == 3      \* largest `retries` argument the caller passes
MaxBodyLen  == 3      \* longest response body handed to Handlers, in bytes

\* ------------------------------------------------------ values and names
\* None, for each field that holds None in the source
NoReply == 0          \* current_reply = None
NoCallback == 0       \* callback = None
NoTimeout == 0        \* timeout = None
NoTimer == [exists |-> FALSE, active |-> FALSE, target |-> 0]
NoFilter == [given |-> FALSE, codes |-> {}]     \* retry_errors = None

\* QNetworkReply.NetworkError values the model uses.
NoError == "NoError"
ConnectionRefusedError == "ConnectionRefusedError"
InternalServerError == "InternalServerError"
OperationCanceledError == "OperationCanceledError"

\* errors the transport itself reports (abort() reports OperationCanceledError)
TransportErrors == {ConnectionRefusedError, InternalServerError}

\* reply.attribute(HttpStatusCodeAttribute) or 0, for a reply that failed
ErrorStatus(code) == IF code = InternalServerError THEN 500 ELSE 0

\* the retry_errors argument of QtHttpClient.__init__: None or a list of codes
RetryFilters ==
  {NoFilter, [given |-> TRUE, codes |-> {ConnectionRefusedError}]}

\* reply.errorString(), by the reply's error
errorString(code) == code

\* ResultType (entity.py)
error == 0
success == 1

\* Response bodies: byte strings over '1' (0x31), 'x' (0x78) and the two
\* bytes 0xC3 0xA9 of the UTF-8 encoding of U+00E9.
Bytes == {49, 120, 195, 169}

RECURSIVE SeqsUpTo(_, _)
SeqsUpTo(S, n) ==
  IF n = 0 THEN {<<>>}
  ELSE LET shorter == SeqsUpTo(S, n - 1)
       IN shorter \cup {Append(q, b) : q \in {x \in shorter : Len(x) = n - 1}, b \in S}

Bodies == SeqsUpTo(Bytes, MaxBodyLen)

\* the bodies the transport of the client answers with: valid JSON, text that
\* is not JSON, the empty body, bytes that are not UTF-8
ReplyBodies == {<<49>>, <<120>>, <<>>, <<195>>}

\* ----------------------------------------------------------- decoding
\* bytes.decode('utf-8') succeeds (otherwise it raises UnicodeDecodeError)
RECURSIVE Utf8Valid(_)
Utf8Valid(raw) ==
  IF raw = <<>> THEN TRUE
  ELSE IF Head(raw) < 128 THEN Utf8Valid(Tail(raw))
  ELSE IF Head(raw) = 195 /\ Len(raw) >= 2
       THEN raw[2] \in 128..191 /\ Utf8Valid(Tail(Tail(raw)))
  ELSE FALSE

\* bytes.decode('utf-8') of a valid byte string: its code points
RECURSIVE Utf8Decode(_)
Utf8Decode(raw) ==
  IF raw = <<>> THEN <<>>
  ELSE IF Head(raw) < 128 THEN <<Head(raw)>> \o Utf8Decode(Tail(raw))
  ELSE <<64 + raw[2]>> \o Utf8Decode(Tail(Tail(raw)))

\* json.loads(text): over this alphabet the JSON documents are the decimal
\* numbers written with the digit '1'; on anything else it raises
\* JSONDecodeError.
JsonValid(text) == text # <<>> /\ \A i \in 1..Len(text) : text[i] = 49

RECURSIVE JsonLoads(_)
JsonLoads(text) ==
  IF text = <<>> THEN 0
  ELSE 10 * JsonLoads(SubSeq(text, 1, Len(text) - 1)) + (text[Len(text)] - 48)

\* the default of HttpClientResult.json (an empty dict)
NoJson == -1

\* ------------------------------------------------------------ state
VARIABLES
  \* QtHttpClient fields (client.py)
  retry_errors, _url, _initial_retries, _remaining_retries, _history,
  _timeout, _callback, _error_handled_for_reply, current_reply,
  request_timeout_timer,
  \* the transport: every QNetworkReply the network manager has created
  replies,
  \* observers: the outcomes emitted on requestCompleted, the callback calls
  requestCompleted, callbackCalls,
  \* the caller's dispatches, and the handler calls of the latest event
  requests, calls,
  \* Handlers (handlers.py), for its latest handle_response call: the reply
  \* handed in, what was emitted on `result`, what was passed to send_result,
  \* and the exception that left the call
  response, result, sent_results, raised,
  \* Handlers.ignore_redirect, the current_request of the class Handlers is
  \* mixed into, and the make_request calls of the latest handle_response
  ignore_redirect, current_request, made_requests,
  \* Utilities.total_size, and for the latest handle_progress call its
  \* arguments and what was emitted on download_progress
  total_size, progress_call, download_progress

clientVars ==
  <<retry_errors, _url, _initial_retries, _remaining_retries, _history,
    _timeout, _callback, _error_handled_for_reply, current_reply,
    request_timeout_timer, replies, requestCompleted, callbackCalls,
    requests, calls>>
handlersVars ==
  <<response, result, sent_results, raised, ignore_redirect, current_request,
    made_requests, total_size, progress_call, download_progress>>
vars == <<clientVars, handlersVars>>

\* The client and its transport as one value, for the handlers to thread
\* through their calls.
Self ==
  [url |-> _url, initial_retries |-> _initial_retries,
   remaining_retries |-> _remaining_retries, history |-> _history,
   timeout |-> _timeout, callback |-> _callback,
   error_handled |-> _error_handled_for_reply, current_reply |-> current_reply,
   timer |-> request_timeout_timer, replies |-> replies,
   emitted |-> requestCompleted, called |-> callbackCalls, calls |-> <<>>]

Becomes(s) ==
  /\ _url' = s.url
  /\ _initial_retries' = s.initial_retries
  /\ _remaining_retries' = s.remaining_retries
  /\ _history' = s.history
  /\ _timeout' = s.timeout
  /\ _callback' = s.callback
  /\ _error_handled_for_reply' = s.error_handled
  /\ current_reply' = s.current_reply
  /\ request_timeout_timer' = s.timer
  /\ replies' = s.replies
  /\ requestCompleted' = s.emitted
  /\ callbackCalls' = s.called
  /\ calls' = s.calls

\* a QNetworkReply just returned by network_manager.get/post/put/deleteResource
NewReply(url) ==
  [url |-> url, errorCode |-> NoError, finished |-> FALSE, connected |-> FALSE,
   deleteLater |-> FALSE]

\* Release leaving the reply's signals connected
ReleaseConnected(s, r) == [s EXCEPT !.replies[r].deleteLater = TRUE]

\* reply.error.disconnect(); reply.finished.disconnect();
\* reply.downloadProgress.disconnect(); reply.deleteLater()
Release(s, r) ==
  [s EXCEPT !.replies[r].connected = FALSE, !.replies[r].deleteLater = TRUE]

\* ------------------------------------------------------ _make_request
_make_request(s, url, retries, timeout, callback) ==
  LET saved == [s EXCEPT !.url = url, !.initial_retries = retries,
                         !.remaining_retries = retries, !.history = <<>>,
                         !.timeout = timeout, !.callback = callback,
                         !.error_handled = FALSE]
      cleaned == IF saved.current_reply # NoReply
                 THEN [Release(saved, saved.current_reply) EXCEPT !.current_reply = NoReply]
                 ELSE saved
      stopped == [cleaned EXCEPT !.timer = NoTimer]
      id == Len(s.replies) + 1
  IN [stopped EXCEPT
        !.replies = Append(@, [NewReply(url) EXCEPT !.connected = TRUE]),
        !.current_reply = id,
        !.timer = IF timeout # NoTimeout
                  THEN [exists |-> TRUE, active |-> TRUE, target |-> id]
                  ELSE NoTimer]

\* --------------------------------------------------- _finalize_request
_finalize_request(s, res) ==
  [s EXCEPT !.timer = NoTimer,
            !.emitted = Append(@, res),
            !.called = IF s.callback # NoCallback
                       THEN Append(@, [callback |-> s.callback, result |-> res])
                       ELSE @]

\* HttpClientResult(...) as the client builds it
HttpClientResult(url, status_code, type, message, str, json, raw, attempts, history) ==
  [url |-> url, status_code |-> status_code, type |-> type,
   text |-> [message |-> message, str |-> str], json |-> json, raw |-> raw,
   attempts |-> attempts, history |-> history]

\* messages of the decode failure path of _handle_finished
JsonDecodingFailed == "JSON decoding failed"
FailedToDecode == "Failed to decode JSON response"

\* ------------------------------------------- the handlers and abort()
RECURSIVE _handle_error(_, _, _), _handle_finished(_, _, _, _), abort(_, _)

\* should_retry with the filter ignored
should_retry_any(code) == TRUE

\* should_retry of _handle_error: retry_errors is None or holds the code
should_retry(code) == ~retry_errors.given \/ code \in retry_errors.codes

_handle_error(s, reply, error_code) ==
  LET err == errorString(s.replies[reply].errorCode)
      recorded == [s EXCEPT !.history = Append(@, err),
                            !.remaining_retries = @ - 1]
      retry == should_retry(error_code) /\ recorded.remaining_retries > 0
      logged == [recorded EXCEPT !.calls = Append(@,
                   [handler |-> "_handle_error", reply |-> reply,
                    code |-> error_code, history |-> recorded.history,
                    remaining |-> recorded.remaining_retries, retry |-> retry])]
  IN IF retry
     THEN LET aborted == Release(abort(logged, reply), reply)
          IN _make_request(aborted, aborted.url, aborted.remaining_retries,
                           aborted.timeout, aborted.callback)
     ELSE LET handled == [logged EXCEPT !.error_handled = TRUE]
              res == HttpClientResult(handled.url,
                        ErrorStatus(handled.replies[reply].errorCode), error,
                        err, <<>>, NoJson, <<>>,
                        handled.initial_retries - handled.remaining_retries,
                        handled.history)
          IN [_finalize_request(handled, res) EXCEPT !.replies[reply].deleteLater = TRUE]

\* is_success_status without its upper bound
is_success_status_open(status_code) == 200 <= status_code

\* is_success_status of _handle_finished
is_success_status(status_code) == 200 <= status_code /\ status_code < 300

\* status_code and raw are what reply.attribute(HttpStatusCodeAttribute) and
\* reply.readAll() give for a reply that finished without an error.
_handle_finished(s, reply, status_code, raw) ==
  IF s.replies[reply].errorCode # NoError
  THEN IF s.error_handled
       THEN [s EXCEPT !.replies[reply].deleteLater = TRUE]
       ELSE _handle_error(s, reply, s.replies[reply].errorCode)
  ELSE IF ~(Utf8Valid(raw) /\ JsonValid(Utf8Decode(raw)))
  THEN LET recorded == [s EXCEPT !.history = Append(@, JsonDecodingFailed)]
           counted == IF is_success_status(status_code)
                      THEN [recorded EXCEPT !.remaining_retries = @ - 1]
                      ELSE recorded
           retry == is_success_status(status_code) /\ counted.remaining_retries > 0
           logged == [counted EXCEPT !.calls = Append(@,
                        [handler |-> "_handle_finished", reply |-> reply,
                         code |-> NoError, history |-> counted.history,
                         remaining |-> counted.remaining_retries, retry |-> retry])]
       IN IF retry
          THEN LET aborted == Release(abort(logged, reply), reply)
               IN _make_request(aborted, aborted.url, aborted.remaining_retries,
                                aborted.timeout, aborted.callback)
          ELSE LET handled == [logged EXCEPT !.error_handled = TRUE]
                   res == HttpClientResult(handled.replies[reply].url, status_code,
                             error, FailedToDecode, <<>>, NoJson, raw,
                             handled.initial_retries - handled.remaining_retries,
                             handled.history)
               IN [_finalize_request(handled, res) EXCEPT !.replies[reply].deleteLater = TRUE]
  ELSE LET text == Utf8Decode(raw)
           res == HttpClientResult(s.replies[reply].url, status_code, success,
                     "", text, JsonLoads(text), raw,
                     s.initial_retries - s.remaining_retries + 1, s.history)
       IN [_finalize_request(s, res) EXCEPT !.replies[reply].deleteLater = TRUE]

\* QNetworkReply.abort(), called by the timeout timer (client.py line 118)
\* and by the retry branches (lines 144, 200).  Qt: nothing on a reply that
\* has finished; otherwise the reply reports OperationCanceledError through
\* its error signal unless it has reported an error already, and then emits
\* finished, both synchronously, to the slots still connected.  The slots are
\* the lambdas of _make_request, which pass self.current_reply.
abort(s, reply) ==
  IF s.replies[reply].finished THEN s
  ELSE LET errored ==
             IF s.replies[reply].errorCode = NoError
             THEN LET e == [s EXCEPT !.replies[reply].errorCode = OperationCanceledError]
                  IN IF e.replies[reply].connected
                     THEN _handle_error(e, e.current_reply, OperationCanceledError)
                     ELSE e
             ELSE s
           done ==
             IF errored.replies[reply].finished THEN errored
             ELSE LET f == [errored EXCEPT !.replies[reply].finished = TRUE]
                  IN IF f.replies[reply].connected
                     THEN _handle_finished(f, f.current_reply, 0, <<>>)
                     ELSE f
       IN [done EXCEPT !.replies[reply].finished = TRUE]

\* ----------------------------------------------- Handlers (handlers.py)
TypeError == "TypeError"
NoException == ""
AttributeError == "AttributeError"

\* reply.attribute(RedirectionTargetAttribute): None when the reply carries no
\* redirection target, a QUrl that is not valid, or the URL of the target
MissingTarget == -1
NoTarget == 0

NoResponse ==
  [url |-> 0, errorCode |-> NoError, status_code |-> 0, raw |-> <<>>,
   redirect |-> MissingTarget]

\* self.current_request before any request was made
NoRequest == [request_retries |-> 0, progress |-> FALSE]

\* HttpClientResult's fields left at their defaults (entity.py)
DefaultResult(url, type, status_code) ==
  HttpClientResult(url, status_code, type, "", <<>>, NoJson, <<>>, 0, <<>>)

\* bool(result) for an HttpClientResult: the dataclass defines neither
\* __bool__ nor __len__, so every instance is true.
Truthy(res) == TRUE

\* Utilities.unparse_result: the result it returns, or the exception that
\* leaves it.  HttpClientResult has no field `bytes`, so the constructor call
\* of the except branch raises TypeError.
unparse_result(url, raw) ==
  IF Utf8Valid(raw)
  THEN LET decoded_data == Utf8Decode(raw)
       IN IF JsonValid(decoded_data)
          THEN [raised |-> NoException,
                value |-> [DefaultResult(url, success, 200)
                             EXCEPT !.json = JsonLoads(decoded_data)]]
          ELSE LET res == [DefaultResult(url, success, 200)
                             EXCEPT !.text = [message |-> "", str |-> decoded_data]]
               IN IF ~Truthy(res)
                  THEN [raised |-> TypeError, value |-> DefaultResult(url, success, 200)]
                  ELSE [raised |-> NoException, value |-> res]
  ELSE [raised |-> TypeError, value |-> DefaultResult(url, success, 200)]

\* the statuses of the responses handed to handle_response
ResponseStatuses == {200, 422, 500}

\* ErrorCode.unprocessable_entities / ErrorCode.invalid_request, or None
string_code(status_code) ==
  IF status_code = 422 THEN "unprocessable_entities"
  ELSE IF status_code = 500 THEN "invalid_request"
  ELSE ""

\* QUrl.toString(): URL 1 is "x/a", URL 2 is "x/b", ...
toString(url) == <<120, 47, 96 + url>>

\* Python's `i in s` on strings: i occurs in s as a substring
In(i, s) == \E k \in 0..(Len(s) - Len(i)) : SubSeq(s, k + 1, k + Len(i)) = i

\* the ignore_redirect argument of Handlers.__init__: no pattern, "a" or "b"
IgnorePatterns == {{}, {<<97>>}, {<<98>>}}

\* make_request of the class that Handlers is mixed into: it dispatches an
\* attempt with these arguments.  The model records the dispatch.
make_request(method, url, request_retries, progress, send_result) ==
  <<[method |-> method, url |-> url, request_retries |-> request_retries,
     progress |-> progress, send_result |-> send_result]>>

\* handle_allowed_redirect passing on one retry less
handle_allowed_redirect_counted(reply, send_result) ==
  IF reply.redirect = MissingTarget
  THEN [made |-> <<>>, raised |-> AttributeError]
  ELSE IF reply.redirect # NoTarget
  THEN [made |-> make_request("GET", reply.redirect,
                              current_request.request_retries - 1,
                              ~\E i \in ignore_redirect : In(i, toString(reply.url)),
                              send_result),
        raised |-> NoException]
  ELSE [made |-> <<>>, raised |-> NoException]

\* Handlers.handle_allowed_redirect: the requests it makes and the exception
\* leaving it.  With no redirection target the attribute is None and
\* None.isValid() raises AttributeError.  The patterns are looked for in
\* reply.url().toString(), the URL that answered.
handle_allowed_redirect(reply, send_result) ==
  IF reply.redirect = MissingTarget
  THEN [made |-> <<>>, raised |-> AttributeError]
  ELSE IF reply.redirect # NoTarget
  THEN LET progress == ~\E i \in ignore_redirect : In(i, toString(reply.url))
       IN [made |-> make_request("GET", reply.redirect,
                                 current_request.request_retries, progress,
                                 send_result),
           raised |-> NoException]
  ELSE [made |-> <<>>, raised |-> NoException]

\* Handlers.handle_response: what it emits on `result`, what it passes to
\* send_result, the requests it makes and the exception leaving it.
handle_response(reply, send_result) ==
  IF reply.errorCode = NoError /\ reply.status_code \in {301, 302}
  THEN LET redirected == handle_allowed_redirect(reply, send_result)
       IN [emitted |-> <<>>, sent |-> <<>>, raised |-> redirected.raised,
           made |-> redirected.made]
  ELSE IF reply.errorCode = NoError
  THEN LET got == unparse_result(reply.url, reply.raw)
       IN IF got.raised # NoException
          THEN [emitted |-> <<>>, sent |-> <<>>, raised |-> got.raised, made |-> <<>>]
          ELSE [emitted |-> <<got.value>>,
                sent |-> IF send_result THEN <<got.value>> ELSE <<>>,
                raised |-> NoException, made |-> <<>>]
  ELSE LET res == [DefaultResult(reply.url, error, reply.status_code)
                     EXCEPT !.text = [message |->
                                        IF string_code(reply.status_code) # ""
                                        THEN string_code(reply.status_code)
                                        ELSE errorString(reply.errorCode),
                                      str |-> <<>>]]
       IN [emitted |-> <<res>>,
           sent |-> IF send_result THEN <<res>> ELSE <<>>,
           raised |-> NoException, made |-> <<>>]

\* ------------------------------------------ Python float arithmetic
\* A non-negative double is held as its integer part and 75 bits after the
\* binary point, in five limbs of 15 bits; of these bits a double keeps
\* Precision significant ones.  The operands of the model are far below
\* 2^16, so 75 bits hold every bit a rounding looks at.
Precision == 53

\* number of bits of a non-negative integer
RECURSIVE BitLength(_)
BitLength(n) == IF n = 0 THEN 0 ELSE 1 + BitLength(n \div 2)

\* bit i after the binary point (1 is the most significant)
Bit(frac, i) == (frac[((i - 1) \div 15) + 1] \div 2^(14 - ((i - 1) % 15))) % 2

\* the zero bits right after the binary point
HeadZeros(frac) ==
  IF \A i \in 1..75 : Bit(frac, i) = 0 THEN 75
  ELSE (CHOOSE i \in 1..75 : Bit(frac, i) = 1 /\ \A j \in 1..(i - 1) : Bit(frac, j) = 0) - 1

\* the first n limbs of rem / d, and the remainder they leave (0 <= rem < d)
RECURSIVE DivLimbs(_, _, _)
DivLimbs(rem, d, n) ==
  IF n = 0 THEN <<>>
  ELSE <<(rem * 32768) \div d>> \o DivLimbs((rem * 32768) % d, d, n - 1)

RECURSIVE DivRest(_, _, _)
DivRest(rem, d, n) ==
  IF n = 0 THEN rem ELSE DivRest((rem * 32768) % d, d, n - 1)

\* frac with the bits after bit `kept` cleared
Truncate(frac, kept) ==
  [j \in 1..5 |->
     IF 15 * j <= kept THEN frac[j]
     ELSE IF 15 * (j - 1) >= kept THEN 0
     ELSE frac[j] - (frac[j] % 2^(15 * j - kept))]

\* limbs 1..j of frac plus `add` units of limb j, with the carry out
RECURSIVE AddAt(_, _, _)
AddAt(frac, j, add) ==
  IF j = 0 THEN [frac |-> frac, carry |-> add]
  ELSE AddAt([frac EXCEPT ![j] = (frac[j] + add) % 32768], j - 1,
             (frac[j] + add) \div 32768)

\* int + frac rounded to `kept` bits after the binary point, ties to even;
\* `more` says that bits beyond the 75 of frac are not all zero
Round(int, frac, kept, more) ==
  IF kept >= 75 THEN [int |-> int, frac |-> frac]
  ELSE LET guard == Bit(frac, kept + 1)
           sticky == more \/ \E i \in (kept + 2)..75 : Bit(frac, i) = 1
           lsb == IF kept = 0 THEN int % 2 ELSE Bit(frac, kept)
           cut == Truncate(frac, kept)
           limb == (kept + 14) \div 15
           sum == AddAt(cut, limb, IF kept = 0 THEN 1 ELSE 2^(15 * limb - kept))
       IN IF guard = 1 /\ (sticky \/ lsb = 1)
          THEN [int |-> int + sum.carry, frac |-> sum.frac]
          ELSE [int |-> int, frac |-> cut]

\* the bits after the binary point that a double with this value keeps
Kept(int, frac) ==
  IF int > 0 THEN Precision - BitLength(int) ELSE HeadZeros(frac) + Precision

\* a / b for ints a >= 0, b > 0: the quotient rounded to the nearest double
TrueDivide(a, b) ==
  LET int == a \div b
      frac == DivLimbs(a % b, b, 5)
  IN Round(int, frac, Kept(int, frac), DivRest(a % b, b, 5) # 0)

\* limbs 1..j of 100 * frac, with the carry out
RECURSIVE TimesHundred(_, _, _)
TimesHundred(frac, j, carry) ==
  IF j = 0 THEN [frac |-> frac, carry |-> carry]
  ELSE TimesHundred([frac EXCEPT ![j] = (100 * frac[j] + carry) % 32768], j - 1,
                    (100 * frac[j] + carry) \div 32768)

\* x * 100 for a double x: the product rounded to the nearest double
MultiplyHundred(x) ==
  LET prod == TimesHundred(x.frac, 5, 0)
      int == 100 * x.int + prod.carry
  IN Round(int, prod.frac, Kept(int, prod.frac), FALSE)

\* int(x) for a non-negative double
IntOf(x) == x.int

\* self.total_size before update_total_size has set it
Unset == -1

\* no handle_progress call yet
NoCall == [bytes_received |-> 0, bytes_total |-> 0, made |-> FALSE]

\* Utilities.update_total_size: content_length is the Content-Length header
\* of the reply, 0 when the reply has none
update_total_size(content_length) ==
  IF content_length # 0 THEN content_length ELSE total_size

\* Utilities.handle_progress: what it emits on download_progress and the
\* exception leaving it.  The bytes_total argument is overwritten with
\* self.total_size, an attribute that only update_total_size sets.
handle_progress(bytes_received, bytes_total) ==
  IF total_size = Unset
  THEN [emitted |-> <<>>, raised |-> AttributeError]
  ELSE LET total == IF total_size <= 0 THEN 1 ELSE total_size
           received == IF bytes_received <= 0 THEN 1 ELSE bytes_received
           percent == IntOf(MultiplyHundred(TrueDivide(received, total)))
       IN [emitted |-> <<percent>>, raised |-> NoException]

\* --------------------------------------------------------------- Init
Init ==
  /\ retry_errors \in RetryFilters
  /\ _url = 0
  /\ _initial_retries = 0
  /\ _remaining_retries = 0
  /\ _history = <<>>
  /\ _timeout = NoTimeout
  /\ _callback = NoCallback
  /\ _error_handled_for_reply = FALSE
  /\ current_reply = NoReply
  /\ request_timeout_timer = NoTimer
  /\ replies = <<>>
  /\ requestCompleted = <<>>
  /\ callbackCalls = <<>>
  /\ requests = <<>>
  /\ calls = <<>>
  /\ response = NoResponse
  /\ result = <<>>
  /\ sent_results = <<>>
  /\ raised = NoException
  /\ ignore_redirect = {}
  /\ current_request = NoRequest
  /\ made_requests = <<>>
  /\ total_size = Unset
  /\ progress_call = NoCall
  /\ download_progress = <<>>

\* ------------------------------------------------------------ actions
\* get/post/put/delete: the caller starts logical request number
\* Len(requests) + 1, whose URL and callback carry that number.
Dispatch(retries, timeout, withCallback) ==
  /\ Len(requests) < MaxRequests
  /\ LET id == Len(requests) + 1
         cb == IF withCallback THEN id ELSE NoCallback
     IN /\ requests' = Append(requests, [retries |-> retries, timeout |-> timeout,
                                         callback |-> cb])
        /\ Becomes(_make_request(Self, id, retries, timeout, cb))
  /\ UNCHANGED <<retry_errors, handlersVars>>

\* A reply the transport is still working on and whose signals have a slot.
\* The signals of a reply that _make_request or a retry branch disconnected
\* reach no code of the client, and nothing reads such a reply's state again,
\* so they are not steps of the model; neither is the destruction that
\* deleteLater() schedules (a destroyed reply emits nothing, and a signal that
\* never arrives is a behaviour of the model already).
Live(r) == r \in DOMAIN replies /\ ~replies[r].finished /\ replies[r].connected

\* the transport reports a failure of reply r: its error signal
ReplyError(r, code) ==
  /\ Live(r)
  /\ replies[r].errorCode = NoError
  /\ LET s == [Self EXCEPT !.replies[r].errorCode = code]
     IN Becomes(_handle_error(s, s.current_reply, code))
  /\ UNCHANGED <<retry_errors, requests, handlersVars>>

\* reply r finishes: after its error, or with a response (status, body)
ReplyFinished(r, status_code, raw) ==
  /\ Live(r)
  /\ replies[r].errorCode # NoError => status_code = 200 /\ raw = <<>>
  /\ LET s == [Self EXCEPT !.replies[r].finished = TRUE]
     IN Becomes(_handle_finished(s, s.current_reply, status_code, raw))
  /\ UNCHANGED <<retry_errors, requests, handlersVars>>

\* the single-shot timeout timer fires: current_reply.abort, as connected
TimerExpires ==
  /\ request_timeout_timer.exists
  /\ request_timeout_timer.active
  /\ LET s == [Self EXCEPT !.timer.active = FALSE]
     IN Becomes(abort(s, request_timeout_timer.target))
  /\ UNCHANGED <<retry_errors, requests, handlersVars>>

\* statuses of a response that arrives without a transport error
FinishedStatuses == {200, 302}

Transport ==
  \/ \E r \in DOMAIN replies, code \in TransportErrors : ReplyError(r, code)
  \/ \E r \in DOMAIN replies, status_code \in FinishedStatuses, raw \in ReplyBodies :
       ReplyFinished(r, status_code, raw)
  \/ TimerExpires

\* One client object that serves one logical request.
Next ==
  \/ \E retries \in 1..MaxRetries, timeout \in {NoTimeout, 5}, withCallback \in BOOLEAN :
       requests = <<>> /\ Dispatch(retries, timeout, withCallback)
  \/ Transport

Spec == Init /\ [][Next]_vars

\* One client object on which the caller dispatches further requests, at any
\* time.
NextConcurrent ==
  \/ \E retries \in 1..MaxRetries, timeout \in {NoTimeout, 5}, withCallback \in BOOLEAN :
       Dispatch(retries, timeout, withCallback)
  \/ Transport

SpecConcurrent == Init /\ [][NextConcurrent]_vars

\* ------------------------------------------- Handlers.handle_response
HandleResponse(reply, send_result) ==
  /\ LET out == handle_response(reply, send_result)
     IN /\ response' = reply
        /\ result' = out.emitted
        /\ sent_results' = out.sent
        /\ raised' = out.raised
        /\ made_requests' = out.made
  /\ progress_call' = NoCall
  /\ download_progress' = <<>>
  /\ UNCHANGED <<clientVars, ignore_redirect, current_request, total_size>>

\* the replies handed to handle_response: a response with a body, or a
\* transport error
Responses ==
  {[url |-> 1, errorCode |-> NoError, status_code |-> 200, raw |-> raw,
    redirect |-> MissingTarget] : raw \in Bodies}
  \cup {[url |-> 1, errorCode |-> code, status_code |-> st, raw |-> <<>>,
         redirect |-> MissingTarget] :
          code \in TransportErrors, st \in ResponseStatuses}

NextHandlers ==
  \E reply \in Responses, send_result \in BOOLEAN : HandleResponse(reply, send_result)

SpecHandlers == Init /\ [][NextHandlers]_vars

\* the replies of a server that redirects: 301 and 302 responses from URL 1
\* or 2 with no redirection target, an invalid one, or URL 1 or 2 as target,
\* and the 200 response that ends a chain
RedirectResponses ==
  {[url |-> url, errorCode |-> NoError, status_code |-> st, raw |-> <<>>,
    redirect |-> target] :
     url \in {1, 2}, st \in {301, 302}, target \in {MissingTarget, NoTarget, 1, 2}}
  \cup {[url |-> url, errorCode |-> NoError, status_code |-> 200, raw |-> <<49>>,
         redirect |-> MissingTarget] : url \in {1, 2}}

\* ---------------------------- Utilities.update_total_size, handle_progress
UpdateTotalSize(content_length) ==
  /\ total_size' = update_total_size(content_length)
  /\ UNCHANGED <<clientVars, response, result, sent_results, raised,
                 ignore_redirect, current_request, made_requests,
                 progress_call, download_progress>>

HandleProgress(bytes_received, bytes_total) ==
  /\ LET out == handle_progress(bytes_received, bytes_total)
     IN /\ download_progress' = out.emitted
        /\ raised' = out.raised
  /\ progress_call' = [bytes_received |-> bytes_received,
                       bytes_total |-> bytes_total, made |-> TRUE]
  /\ response' = NoResponse
  /\ result' = <<>>
  /\ sent_results' = <<>>
  /\ made_requests' = <<>>
  /\ UNCHANGED <<clientVars, ignore_redirect, current_request, total_size>>

\* Content-Length headers (0: the reply has none), and the byte counts that
\* QNetworkReply.downloadProgress reports (-1: the total is not known)
ContentLengths == {0, 5, 100}
ByteCounts == {-1, 0, 23, 29, 100}

NextRedirect ==
  \/ \E reply \in RedirectResponses, send_result \in BOOLEAN :
       HandleResponse(reply, send_result)
  \/ \E content_length \in ContentLengths : UpdateTotalSize(content_length)
  \/ \E bytes_received \in ByteCounts, bytes_total \in ByteCounts :
       HandleProgress(bytes_received, bytes_total)

\* a Handlers object constructed with some ignore_redirect, serving a request
\* with some retries left and some progress flag
InitHandlers ==
  /\ retry_errors = NoFilter
  /\ _url = 0
  /\ _initial_retries = 0
  /\ _remaining_retries = 0
  /\ _history = <<>>
  /\ _timeout = NoTimeout
  /\ _callback = NoCallback
  /\ _error_handled_for_reply = FALSE
  /\ current_reply = NoReply
  /\ request_timeout_timer = NoTimer
  /\ replies = <<>>
  /\ requestCompleted = <<>>
  /\ callbackCalls = <<>>
  /\ requests = <<>>
  /\ calls = <<>>
  /\ response = NoResponse
  /\ result = <<>>
  /\ sent_results = <<>>
  /\ raised = NoException
  /\ ignore_redirect \in IgnorePatterns
  /\ current_request \in [request_retries : 1..MaxRetries, progress : BOOLEAN]
  /\ made_requests = <<>>
  /\ total_size = Unset
  /\ progress_call = NoCall
  /\ download_progress = <<>>

SpecRedirect == InitHandlers /\ [][NextRedirect]_vars

\* ===================================================== the claims
\* the replies that failed / that answered, of logical request u
Failed(u) == {r \in DOMAIN replies : replies[r].url = u /\ replies[r].errorCode # NoError}
Answered(u) ==
  {r \in DOMAIN replies :
     replies[r].url = u /\ replies[r].finished /\ replies[r].errorCode = NoError}
\* the retry-eligibility filter, as the spec states it: no filter, or the code
\* is in it
Eligible(code) == retry_errors = NoFilter \/ code \in retry_errors.codes
\* every failure of request u so far passes the retry filter
AllEligible(u) == \A r \in Failed(u) : Eligible(replies[r].errorCode)
OutcomesOf(u) == {i \in DOMAIN requestCompleted : requestCompleted[i].url = u}

\* C1: a request dispatched with retries = N on a transport whose every
\* attempt fails with a retry-eligible error makes exactly N attempts, and its
\* Outcome has type error, attempts = N and a history of N entries.
C1_ExhaustedRetries ==
  \A i \in DOMAIN requestCompleted :
    LET o == requestCompleted[i]
        N == requests[o.url].retries
    IN (Answered(o.url) = {} /\ AllEligible(o.url)) =>
         /\ o.type = error
         /\ o.attempts = N
         /\ Len(o.history) = N
         /\ Len(replies) = N
         /\ Cardinality(Failed(o.url)) = N

\* C2: a request whose first k < N attempts fail retry-eligibly and whose
\* next attempt answers with a decodable 2xx body ends with an Outcome of
\* type success and attempts = k + 1.
C2_SuccessAfterFailures ==
  \A i \in DOMAIN requestCompleted :
    LET o == requestCompleted[i]
        k == Cardinality(Failed(o.url))
    IN (o.type = success /\ Cardinality(Answered(o.url)) = 1 /\ AllEligible(o.url)
          /\ k < requests[o.url].retries) =>
         o.attempts = k + 1

\* C3: a logical request never has its Outcome emitted twice, and the
\* callback, when one was supplied, is called exactly once, with that Outcome.
C3_OneOutcome ==
  \A u \in DOMAIN requests :
    /\ Cardinality(OutcomesOf(u)) <= 1
    /\ requests[u].callback = NoCallback =>
         ~\E j \in DOMAIN callbackCalls : callbackCalls[j].result.url = u
    /\ requests[u].callback # NoCallback =>
         /\ \A i \in OutcomesOf(u) :
              \E j \in DOMAIN callbackCalls :
                callbackCalls[j] = [callback |-> u, result |-> requestCompleted[i]]
         /\ Cardinality({j \in DOMAIN callbackCalls : callbackCalls[j].callback = u})
              = Cardinality(OutcomesOf(u))

\* C4: when a second request is dispatched while an attempt of the first is
\* in flight, the first request's attempt handle is not torn down: its
\* signals stay connected and it is not released.
C4_Independent ==
  [][\A r \in DOMAIN replies :
       (Len(requests') > Len(requests) /\ replies[r].connected /\ ~replies[r].finished)
         => (replies'[r].connected /\ ~replies'[r].deleteLater)]_vars

\* C5: the expiry of the timeout timer of an attempt in flight counts as one
\* failure: one history entry, one unit of budget; then a retry when
\* OperationCanceledError is eligible and budget remains, and otherwise an
\* error Outcome.
C5_TimeoutIsFailure ==
  [][(TimerExpires /\ replies[request_timeout_timer.target].errorCode = NoError) =>
       IF Eligible(OperationCanceledError) /\ _remaining_retries - 1 > 0
       THEN /\ Len(replies') = Len(replies) + 1
            /\ requestCompleted' = requestCompleted
            /\ _remaining_retries' = _remaining_retries - 1
       ELSE /\ Len(replies') = Len(replies)
            /\ Len(requestCompleted') = Len(requestCompleted) + 1
            /\ requestCompleted'[Len(requestCompleted')].type = error
            /\ requestCompleted'[Len(requestCompleted')].history
                 = Append(_history, errorString(OperationCanceledError))
            /\ _remaining_retries' = _remaining_retries - 1]_vars

\* C6: a request with a timeout on a transport that never responds (every
\* failure is an abort by the timer) is delivered one terminal Outcome and no
\* more, of type error.
C6_TimeoutTerminates ==
  \A u \in DOMAIN requests :
    (/\ requests[u].timeout # NoTimeout
     /\ \A r \in DOMAIN replies : replies[r].errorCode \in {NoError, OperationCanceledError}
     /\ Answered(u) = {}) =>
      /\ Cardinality(OutcomesOf(u)) <= 1
      /\ \A i \in OutcomesOf(u) : requestCompleted[i].type = error

\* a transport failure with this code is delivered: by the transport, or as
\* the abort of the timeout timer
FailureStep(code) ==
  \/ \E r \in DOMAIN replies : code \in TransportErrors /\ ReplyError(r, code)
  \/ /\ code = OperationCanceledError
     /\ TimerExpires
     /\ replies[request_timeout_timer.target].errorCode = NoError

\* the latest Outcome on requestCompleted, in the next state
LastOutcome == requestCompleted'[Len(requestCompleted')]
Finalizes == Len(requestCompleted') > Len(requestCompleted)
Redispatches == Len(replies') > Len(replies)

\* C7: a transport failure is retried only if its code passes the filter and
\* budget remains after the decrement; a failure whose code is not in the
\* filter finalizes at once as an error Outcome, whatever budget is left;
\* with no filter every code is eligible (a retry whenever budget remains).
C7_RetryFilter ==
  [][\A code \in TransportErrors \cup {OperationCanceledError} :
       FailureStep(code) =>
         /\ Redispatches => (Eligible(code) /\ _remaining_retries - 1 > 0)
         /\ ~Eligible(code) =>
              /\ ~Redispatches
              /\ Len(requestCompleted') = Len(requestCompleted) + 1
              /\ LastOutcome.type = error
         /\ (retry_errors = NoFilter /\ _remaining_retries - 1 > 0) => Redispatches]_vars

\* C7 witness: under a filter, a failure whose code is not in it has finalized
\* at once although budget was left.
C7_Witness ==
  /\ retry_errors.given
  /\ Len(calls) = 1
  /\ calls[1].handler = "_handle_error"
  /\ calls[1].code \notin retry_errors.codes
  /\ calls[1].remaining > 0
  /\ Len(replies) = 1
  /\ Len(requestCompleted) = 1
  /\ requestCompleted[1].type = error

\* the body of a reply fails to decode in _handle_finished
DecodeFailure(status_code, raw) ==
  \E r \in DOMAIN replies :
    /\ replies[r].errorCode = NoError
    /\ ~(Utf8Valid(raw) /\ JsonValid(Utf8Decode(raw)))
    /\ ReplyFinished(r, status_code, raw)

\* C8 as stated: a decode failure on a 2xx response is retried like a
\* transport failure, that is only if it passes the eligibility filter (the
\* reply's code is NoError) and budget remains.
C8_DecodeLikeTransport ==
  [][\A status_code \in 200..299, raw \in ReplyBodies :
       (DecodeFailure(status_code, raw) /\ Redispatches) =>
         (Eligible(NoError) /\ _remaining_retries - 1 > 0)]_vars

\* C8 as amended: a decode failure on a 2xx response appends a history entry,
\* decrements the budget and retries whenever budget remains, the filter not
\* being consulted; with the budget exhausted it finalizes as an error
\* Outcome carrying the decode failure message; on a non-2xx response it
\* finalizes at once as an error Outcome, with no retry.
C8_DecodeFailure ==
  [][\A status_code \in FinishedStatuses, raw \in ReplyBodies :
       DecodeFailure(status_code, raw) =>
         LET recorded == Append(_history, JsonDecodingFailed)
             failed == /\ ~Redispatches
                       /\ Len(requestCompleted') = Len(requestCompleted) + 1
                       /\ LastOutcome.type = error
                       /\ LastOutcome.text.message = FailedToDecode
                       /\ LastOutcome.history = recorded
         IN IF status_code \in 200..299
            THEN /\ _remaining_retries' = _remaining_retries - 1
                 /\ IF _remaining_retries - 1 > 0
                    THEN /\ Len(replies') = Len(replies) + 1
                         /\ ~Finalizes
                         /\ calls'[1].history = recorded
                    ELSE failed
            ELSE failed /\ _remaining_retries' = _remaining_retries]_vars

\* C8 witness: under a filter, a decode failure on a 2xx response was retried.
C8_Witness ==
  /\ retry_errors.given
  /\ Len(calls) = 1
  /\ calls[1].handler = "_handle_finished"
  /\ calls[1].retry
  /\ Len(replies) = 2
  /\ requestCompleted = <<>>

\* a response with this body was handed to handle_response, without error
Decoded(raw) == response # NoResponse /\ response.errorCode = NoError /\ response.raw = raw

\* C9: decoding falls back JSON -> text -> bytes: a body that is JSON yields
\* a result with json and text; a body that is non-empty text but not JSON
\* yields a successful text result; a body that is not UTF-8 yields a result
\* with the raw bytes and neither text nor json.
C9_FallbackChain ==
  \A raw \in Bodies :
    Decoded(raw) =>
      /\ raised = NoException
      /\ Len(result) = 1
      /\ result[1].type = success
      /\ IF Utf8Valid(raw) /\ JsonValid(Utf8Decode(raw))
         THEN result[1].json = JsonLoads(Utf8Decode(raw)) /\ result[1].text.str = Utf8Decode(raw)
         ELSE IF Utf8Valid(raw) /\ Utf8Decode(raw) # <<>>
         THEN result[1].text.str = Utf8Decode(raw) /\ result[1].json = NoJson
         ELSE IF ~Utf8Valid(raw)
         THEN result[1].raw = raw /\ result[1].text.str = <<>> /\ result[1].json = NoJson
         ELSE TRUE

\* C10: a body that decodes to the empty string, which is not JSON, is never
\* delivered as a successful result.
C10_EmptyBodyFails ==
  \A raw \in Bodies :
    (Decoded(raw) /\ Utf8Valid(raw) /\ Utf8Decode(raw) = <<>>) =>
      \A i \in DOMAIN result : result[i].type # success

\* the classes of a decoded result: JSON with its text, text alone, the raw
\* bytes alone, or a decode failure
IsJsonText(res) == res.type = success /\ res.json # NoJson /\ res.text.str # <<>>
IsText(res) == res.type = success /\ res.json = NoJson /\ res.text.str # <<>> /\ res.raw = <<>>
IsBytes(res) == res.type = success /\ res.json = NoJson /\ res.text.str = <<>> /\ res.raw # <<>>
IsFailure(res) == res.type = error

\* C11: decoding is total: for every body (JSON text, other non-empty text,
\* empty text, bytes that are not UTF-8) it produces exactly one result, which
\* is exactly one of json+text, text, bytes and decode failure, and no
\* exception leaves handle_response.
C11_DecodeTotal ==
  \A raw \in Bodies :
    Decoded(raw) =>
      /\ raised = NoException
      /\ Len(result) = 1
      /\ Cardinality({c \in 1..4 :
            \/ c = 1 /\ IsJsonText(result[1])
            \/ c = 2 /\ IsText(result[1])
            \/ c = 3 /\ IsBytes(result[1])
            \/ c = 4 /\ IsFailure(result[1])}) = 1

\* the latest handle_response call was handed a 301 or 302 response that
\* carries a valid redirection target
Redirected ==
  /\ response # NoResponse
  /\ response.errorCode = NoError
  /\ response.status_code \in {301, 302}
  /\ response.redirect \notin {MissingTarget, NoTarget}

C14_IgnorePattern ==
  Redirected =>
    /\ Len(made_requests) = 1
    /\ made_requests[1].progress =
         IF \E i \in ignore_redirect : In(i, toString(response.redirect))
         THEN FALSE
         ELSE current_request.progress

\* bytes_received and bytes_total with every value <= 0 replaced by 1
Guarded(n) == IF n <= 0 THEN 1 ELSE n

\* C15: for every pair (received, total) the progress computation raises
\* nothing and emits percent = floor(received' / total' * 100) >= 0, where
\* received' and total' are the two inputs with values <= 0 replaced by 1.
C15_ProgressPercent ==
  progress_call.made =>
    /\ raised = NoException
    /\ Len(download_progress) = 1
    /\ download_progress[1] >= 0
    /\ download_progress[1] =
         (Guarded(progress_call.bytes_received) * 100)
           \div Guarded(progress_call.bytes_total)

\* C13: in a chain a -> 302 -> b -> 200 no Outcome is emitted for the
\* intermediate 302 response: the request goes on with an attempt against the
\* target, and its single Outcome is the one of the final response.
C13_RedirectChain ==
  [][\A r \in DOMAIN replies, raw \in ReplyBodies :
       (replies[r].errorCode = NoError /\ ReplyFinished(r, 302, raw)) =>
         (~Finalizes /\ Redispatches)]_vars

\* p is a prefix of q
IsPrefix(p, q) == Len(p) <= Len(q) /\ SubSeq(q, 1, Len(p)) = p

\* C16: from the first dispatch of a request until its finalize,
\* _initial_retries keeps its value and the history only grows: what it held
\* before a step, and what the handlers of the step appended, is still there
\* after the step.
C16_StateCarried ==
  [][(requests # <<>> /\ requestCompleted = <<>>) =>
       /\ _initial_retries' = _initial_retries
       /\ IsPrefix(_history, _history')
       /\ \A k \in DOMAIN calls' : IsPrefix(calls'[k].history, _history')]_vars

\* the attempt handles whose signals are connected and that are not released
LiveHandles ==
  {r \in DOMAIN replies : replies[r].connected /\ ~replies[r].deleteLater}

\* C17: after every step at most one attempt handle is subscribed, it is the
\* current one, and an armed timer targets it; a step that creates a handle
\* leaves every earlier handle disconnected and released, and only the timer
\* of the new handle, if any, armed.
C17_OneLiveHandle ==
  [][/\ \A r \in DOMAIN replies' : replies'[r].connected => r = current_reply'
     /\ Cardinality(LiveHandles') <= 1
     /\ request_timeout_timer'.active =>
          /\ request_timeout_timer'.target = current_reply'
          /\ replies'[current_reply'].connected
     /\ Redispatches =>
          /\ current_reply' = Len(replies')
          /\ \A r \in 1..(Len(replies') - 1) :
               ~replies'[r].connected /\ replies'[r].deleteLater
          /\ request_timeout_timer'.exists =>
               request_timeout_timer'.target = Len(replies')]_vars

\* C17 witness: a request with a timeout was retried: the first handle is
\* disconnected and released, the newest one is current and the armed timer
\* targets it.
C17_Witness ==
  /\ Len(replies) >= 2
  /\ requestCompleted = <<>>
  /\ ~replies[1].connected
  /\ replies[1].deleteLater
  /\ current_reply = Len(replies)
  /\ LiveHandles = {current_reply}
  /\ request_timeout_timer.active
  /\ request_timeout_timer.target = current_reply

\* C18: a request is finalized once; the step that finalizes dispatches no
\* attempt and leaves no timer armed; and after the finalize no step changes
\* the attempt state, dispatches an attempt or emits an Outcome.
C18_Quiescent ==
  [][/\ Len(requestCompleted') <= 1
     /\ Finalizes => (~Redispatches /\ ~request_timeout_timer'.active)
     /\ requestCompleted # <<>> =>
          /\ ~Redispatches
          /\ ~Finalizes
          /\ ~TimerExpires
          /\ UNCHANGED <<_initial_retries, _remaining_retries, _history>>]_vars

\* C19: one failed attempt is counted once: the event that delivers the
\* failure runs the failure bookkeeping a single time, which takes one unit
\* of budget and appends one history entry.
C19_CountedOnce ==
  [][\A code \in TransportErrors \cup {OperationCanceledError} :
       FailureStep(code) =>
         /\ Len(calls') = 1
         /\ calls'[1].remaining = _remaining_retries - 1
         /\ calls'[1].history = Append(_history, errorString(code))]_vars

\* C20: for a request dispatched with retries = N, 0 <= remaining retries
\* <= N in every state, and no more than N attempts are dispatched.
C20_BudgetBounds ==
  \A u \in DOMAIN requests :
    /\ 0 <= _remaining_retries
    /\ _remaining_retries <= requests[u].retries
    /\ Len(replies) <= requests[u].retries

\* C21: every 301 or 302 response that arrived without error leads to a
\* dispatched attempt or to an Outcome: when its redirection target is
\* missing or not valid, nothing is raised and one result is emitted.
C21_RedirectEnds ==
  (/\ response # NoResponse
   /\ response.errorCode = NoError
   /\ response.status_code \in {301, 302}) =>
    /\ raised = NoException
    /\ Len(made_requests) = 1 \/ Len(result) = 1
    /\ response.redirect \in {MissingTarget, NoTarget} => Len(result) = 1

=============================================================================
